---- MODULE Spec2Model ----
(***************************************************************************)
(* A model of the two stateful services of the Cradle mobile client:       *)
(*                                                                         *)
(*   StreamingService   (mobile/src/services/StreamingService.ts)          *)
(*   WebSocketProvider  (mobile/src/services/WebSocketService.tsx)         *)
(*                                                                         *)
(* Both run on the single JavaScript thread: a step of the model is one    *)
(* run-to-completion section of the code, from a call or a callback up to  *)
(* the next await (or the end of the function).  The two services share no *)
(* state, so each has its own specification: StreamSpec and SocketSpec.    *)
(***************************************************************************)
EXTENDS Integers, Sequences, FiniteSets, TLC

VARIABLES
    \* ---- StreamingService fields
    currentSession,   \* this.currentSession: NoSession (null) or a session id
    isStreaming,      \* this.isStreaming
    chunkQueue,       \* this.chunkQueue: sequence of chunks
    uploadInterval,   \* this.uploadInterval: NoTimer (null) or a timer handle
    \* ---- the run-time around it
    timers,           \* handles of the setInterval timers that are still armed
    startReqs,        \* startSession calls awaiting the backend: the value of
                      \*   currentSession when each was called
    endReqs,          \* endSession calls awaiting the backend: the session id
                      \*   in each request's path
    procs,            \* processChunkQueue invocations suspended at an await
    \* ---- bookkeeping of the verification
    count,            \* how often each bounded operation has happened
    limit,            \* the bounds this behaviour runs under (fixed by Init)
    uploadFailures,   \* chunk id -> number of failed uploadSingleChunk calls
    endedSessions,    \* ids of the sessions that were cleared
    endPending,       \* chunk ids queued at the last endSession call whose
                      \*   uploadSingleChunk has not gone past its session check
    \* ---- WebSocketProvider: React state and refs
    isConnected,          \* useState(false)
    connectionStatus,     \* useState('disconnected')
    wsRef,                \* wsRef.current: NoSocket (null) or a socket
    reconnectTimeoutRef,  \* reconnectTimeoutRef.current: [set, armed, delay]
    reconnectAttemptsRef, \* reconnectAttemptsRef.current
    appStateRef,          \* appStateRef.current
    lastMessage,          \* useState(null): the type tag of the last message
    \* ---- the run-time around it
    identity,             \* useAuth(): user and token are both present
    sockets,              \* socket -> [readyState, sent]
    connectTimers,        \* pending setTimeout(connect, 1000) of reconnect():
                          \*   identity seen by the closure -> how many
    \* ---- bookkeeping of the verification
    socketLimit,          \* the bounds this behaviour runs under (fixed by Init)
    delayLog,             \* delays passed to setTimeout by scheduleReconnect
                          \*   since the last socket-open
    connectOutcome,       \* how the most recent connect() call ended
    inbound,              \* frames received so far, and the branch the last
                          \*   one took in onmessage / handleIncomingMessage
    blocked               \* the model ran out of socket slots (never reached:
                          \*   every action requires it to stay FALSE)

streamVars == <<currentSession, isStreaming, chunkQueue, uploadInterval, timers,
                startReqs, endReqs, procs, count, limit, uploadFailures,
                endedSessions, endPending>>

socketVars == <<isConnected, connectionStatus, wsRef, reconnectTimeoutRef,
                reconnectAttemptsRef, appStateRef, lastMessage, identity,
                sockets, connectTimers, socketLimit, delayLog, connectOutcome,
                inbound, blocked>>

vars == <<streamVars, socketVars>>

(***************************************************************************)
(* Program constants                                                       *)
(***************************************************************************)
QueueCapacity == 50
RetryBound == 30
BatchSize == 10

NoSession == 0
NoTimer == 0

(***************************************************************************)
(* Bounds.  A behaviour runs under one of these profiles, chosen by Init:  *)
(*   overflow:  one session, more chunks than the queue holds;             *)
(*   retry:     one chunk whose upload may fail again and again;           *)
(*   lifecycle: sessions started, ended and cleaned up, no injected fault; *)
(*   shutdown:  one session, ended and cleaned up again and again;         *)
(*   faults:    one session, several ticks and injected upload failures;   *)
(*   teardown:  one session ended with more than one batch queued;         *)
(*   idle:      chunks submitted while no session is active;               *)
(*   drain:     one session, a few chunks and failures, and as many ticks  *)
(*              as it can take to dequeue every chunk every time;          *)
(*   backlog:   one session under overload, a single schedule: chunks      *)
(*              arrive a full batch per tick (as many ticks as that takes) *)
(*              and the device storage is down: every writeFile is         *)
(*              rejected, the oldest batch's first.                        *)
(***************************************************************************)
OverflowChunks == 60
RetryFails == 31
RetryTicks == 31
FewChunks == 2
FewSessions == 2
FewEnds == 1
FewCleanups == 1
FaultChunks == 3
FaultTicks == 2
FaultFails == 2
FewDiscards == 1
BacklogChunks == 31
DrainChunks == 2
DrainFails == 1

Profiles ==
    { [name |-> "overflow", chunks |-> OverflowChunks, starts |-> 1,
       ticks |-> 1, fails |-> 1, ends |-> 0,
       cleanups |-> 0, discards |-> 0, uploads |-> "any",
       idleEnds |-> 0],
      [name |-> "retry", chunks |-> 1, starts |-> 1,
       ticks |-> RetryTicks, fails |-> RetryFails, ends |-> 0,
       cleanups |-> 0, discards |-> 0, uploads |-> "any",
       idleEnds |-> 0],
      [name |-> "lifecycle", chunks |-> FewChunks, starts |-> FewSessions,
       ticks |-> 1, fails |-> 0, ends |-> 1,
       cleanups |-> 1, discards |-> 0, uploads |-> "any",
       idleEnds |-> 0],
      [name |-> "shutdown", chunks |-> 1, starts |-> 1,
       ticks |-> 1, fails |-> 0, ends |-> FewEnds,
       cleanups |-> FewCleanups, discards |-> 0, uploads |-> "any",
       idleEnds |-> FewEnds],
      [name |-> "faults", chunks |-> FaultChunks, starts |-> 1,
       ticks |-> FaultTicks, fails |-> FaultFails, ends |-> 1,
       cleanups |-> 0, discards |-> 0, uploads |-> "any",
       idleEnds |-> 0],
      [name |-> "teardown", chunks |-> BatchSize + 1, starts |-> 1,
       ticks |-> 0, fails |-> 0, ends |-> 1,
       cleanups |-> 0, discards |-> 0, uploads |-> "any",
       idleEnds |-> 0],
      [name |-> "idle", chunks |-> 1, starts |-> 1,
       ticks |-> 0, fails |-> 0, ends |-> 1, cleanups |-> 1,
       discards |-> FewDiscards, uploads |-> "any",
       idleEnds |-> 0],
      [name |-> "drain", chunks |-> DrainChunks, starts |-> 1,
       ticks |-> DrainChunks + DrainFails, fails |-> DrainFails, ends |-> 1,
       cleanups |-> 1, discards |-> 0, uploads |-> "any",
       idleEnds |-> 0],
      [name |-> "backlog", chunks |-> BacklogChunks, starts |-> 1,
       ticks |-> (BacklogChunks + BatchSize - 1) \div BatchSize,
       fails |-> BacklogChunks, ends |-> 0,
       cleanups |-> 0, discards |-> 0, uploads |-> "storage down",
       idleEnds |-> 0] }

MaxChunkId == OverflowChunks + FaultChunks + BatchSize

(***************************************************************************)
(* StreamingService: pure helpers                                          *)
(***************************************************************************)
Min(a, b) == IF a < b THEN a ELSE b

\* A chunk: its identity (the submission index stands for timestamp and
\* payload) and the session id stamped on it.
MakeChunk(id, sess) == [id |-> id, session_id |-> sess]

\* Mutant of PushChunk: at capacity the new chunk is the one dropped.
PushChunkDropNewest(q, c) ==
    IF Len(q) >= QueueCapacity THEN q ELSE Append(q, c)

\* chunkQueue.push(chunk); if (length > 50) shift()
PushChunk(q, c) ==
    LET pushed == Append(q, c)
    IN  IF Len(pushed) > QueueCapacity THEN Tail(pushed) ELSE pushed

\* chunkQueue.splice(0, 10): the removed batch, and what stays
SpliceBatch(q) == SubSeq(q, 1, Min(BatchSize, Len(q)))
SpliceRest(q) == SubSeq(q, Min(BatchSize, Len(q)) + 1, Len(q))

\* Mutant of Requeue: the failed chunk is put back whatever the length.
RequeueAlways(q, c) == <<c>> \o q

\* Mutant of Requeue: the bound is off by one.
RequeueOffByOne(q, c) == IF Len(q) <= RetryBound THEN <<c>> \o q ELSE q

\* if (chunkQueue.length < 30) chunkQueue.unshift(chunk)
Requeue(q, c) == IF Len(q) < RetryBound THEN <<c>> \o q ELSE q

DropAt(s, i) == SubSeq(s, 1, i - 1) \o SubSeq(s, i + 1, Len(s))

ChunkIds(q) == { q[i].id : i \in DOMAIN q }

\* processChunkQueue up to its first await: the guard, the splice, and the
\* call of uploadSingleChunk for the first chunk, which runs to its writeFile.
ProcessChunkQueue(q, ps, sess) ==
    IF Len(q) = 0 \/ sess = NoSession
    THEN [queue |-> q, procs |-> ps, started |-> {}]
    ELSE [queue |-> SpliceRest(q),
          procs |-> Append(ps, [batch |-> SpliceBatch(q), stage |-> "write"]),
          started |-> {q[1].id}]

\* The for loop of processChunkQueue going on with the chunks `rest`:
\* uploadSingleChunk(next) returns at once when there is no session, so the
\* loop runs through; otherwise it suspends at the next chunk's writeFile.
ContinueLoop(ps, i, rest, sess) ==
    IF rest = <<>> \/ sess = NoSession
    THEN [procs |-> DropAt(ps, i), started |-> {}]
    ELSE [procs |-> [ps EXCEPT ![i] = [batch |-> rest, stage |-> "write"]],
          started |-> {rest[1].id}]

(***************************************************************************)
(* StreamingService: initial state                                         *)
(***************************************************************************)
StreamInit ==
    /\ currentSession = NoSession
    /\ isStreaming = FALSE
    /\ chunkQueue = <<>>
    /\ uploadInterval = NoTimer
    /\ timers = {}
    /\ startReqs = <<>>
    /\ endReqs = <<>>
    /\ procs = <<>>
    /\ count = [chunks |-> 0, starts |-> 0, sessions |-> 0, ticks |-> 0,
                fails |-> 0, ends |-> 0, cleanups |-> 0, discards |-> 0,
                startErrors |-> 0, idleEnds |-> 0, lastEnd |-> "none"]
    /\ limit \in Profiles
    /\ uploadFailures = [id \in 1..MaxChunkId |-> 0]
    /\ endedSessions = {}
    /\ endPending = {}

(***************************************************************************)
(* StreamingService: operations                                            *)
(***************************************************************************)

\* startSession(deviceId), up to `await this.makeRequest(...)`.
StartSessionCall ==
    /\ count.starts < limit.starts
    /\ startReqs' = Append(startReqs, currentSession)
    /\ count' = [count EXCEPT !.starts = @ + 1]
    /\ UNCHANGED <<currentSession, isStreaming, chunkQueue, uploadInterval,
                   timers, endReqs, procs, limit, uploadFailures,
                   endedSessions, endPending, socketVars>>

\* startSession resumes with the backend's response: the session is stored,
\* isStreaming set, and startChunkUploader arms a new interval timer whose
\* handle overwrites this.uploadInterval.
StartSessionOk(i) ==
    LET sid == count.sessions + 1
    IN  /\ i \in DOMAIN startReqs
        /\ startReqs' = DropAt(startReqs, i)
        /\ currentSession' = sid
        /\ isStreaming' = TRUE
        /\ uploadInterval' = sid
        /\ timers' = timers \cup {sid}
        /\ count' = [count EXCEPT !.sessions = sid]
        /\ UNCHANGED <<chunkQueue, endReqs, procs, limit, uploadFailures,
                       endedSessions, endPending, socketVars>>

\* Mutant of StartSessionFail: isStreaming is set before the request is
\* awaited, and stays set when the request is rejected.
StartSessionFailStreaming(i) ==
    /\ i \in DOMAIN startReqs
    /\ startReqs' = DropAt(startReqs, i)
    /\ count' = [count EXCEPT !.startErrors = @ + 1]
    /\ isStreaming' = TRUE
    /\ UNCHANGED <<currentSession, chunkQueue, uploadInterval,
                   timers, endReqs, procs, limit, uploadFailures,
                   endedSessions, endPending, socketVars>>

\* startSession resumes with a rejected request: the catch block rethrows
\* the error to the caller.
StartSessionFail(i) ==
    /\ i \in DOMAIN startReqs
    /\ startReqs' = DropAt(startReqs, i)
    /\ count' = [count EXCEPT !.startErrors = @ + 1]
    /\ UNCHANGED <<currentSession, isStreaming, chunkQueue, uploadInterval,
                   timers, endReqs, procs, limit, uploadFailures,
                   endedSessions, endPending, socketVars>>

\* stopChunkUploader(): clearInterval, then processChunkQueue() not awaited.
StopChunkUploader(q, ps, sess) == ProcessChunkQueue(q, ps, sess)

\* Mutant of EndSessionIgnored: endSession has no guard.
EndSessionNeverIgnored(sess) == FALSE

\* if (!this.currentSession) return;
EndSessionIgnored(sess) == sess = NoSession

\* endSession(), up to `await this.makeRequest(...)`.  count.lastEnd records
\* how the latest call went.
EndSessionCall ==
    IF EndSessionIgnored(currentSession)
    THEN /\ count.idleEnds < limit.idleEnds
         /\ count' = [count EXCEPT !.idleEnds = @ + 1, !.lastEnd = "ignored"]
         /\ UNCHANGED <<currentSession, isStreaming, chunkQueue,
                        uploadInterval, timers, startReqs, endReqs, procs,
                        limit, uploadFailures, endedSessions, endPending,
                        socketVars>>
    ELSE LET r == StopChunkUploader(chunkQueue, procs, currentSession)
         IN  /\ count.ends < limit.ends
             /\ isStreaming' = FALSE
             /\ timers' = timers \ {uploadInterval}
             /\ uploadInterval' = NoTimer
             /\ chunkQueue' = r.queue
             /\ procs' = r.procs
             /\ endReqs' = Append(endReqs, currentSession)
             /\ endPending' = ChunkIds(chunkQueue) \ r.started
             /\ count' = [count EXCEPT !.ends = @ + 1,
                                        !.lastEnd = "requested"]
             /\ UNCHANGED <<currentSession, startReqs, limit, uploadFailures,
                            endedSessions, socketVars>>

\* endSession resumes after the backend accepted the request.  The log line
\* reads this.currentSession.session_id: with no session left it throws and
\* the assignment is skipped.
EndSessionOk(i) ==
    /\ i \in DOMAIN endReqs
    /\ endReqs' = DropAt(endReqs, i)
    /\ currentSession' = NoSession
    /\ endedSessions' = endedSessions \cup ({currentSession} \ {NoSession})
    /\ UNCHANGED <<isStreaming, chunkQueue, uploadInterval, timers, startReqs,
                   procs, count, limit, uploadFailures, endPending,
                   socketVars>>

\* endSession resumes with a rejected request: the error is rethrown and
\* currentSession is not touched.
EndSessionFail(i) ==
    /\ i \in DOMAIN endReqs
    /\ endReqs' = DropAt(endReqs, i)
    /\ UNCHANGED <<currentSession, isStreaming, chunkQueue, uploadInterval,
                   timers, startReqs, procs, count, limit, uploadFailures,
                   endedSessions, endPending, socketVars>>

\* Mutant of NoActiveSession: isStreaming is not looked at.
NoActiveSessionIgnoresStreaming(sess, streaming) == sess = NoSession

\* !this.currentSession || !this.isStreaming
NoActiveSession(sess, streaming) == sess = NoSession \/ ~streaming

\* uploadChunk(chunkType, data): with no active session the chunk is
\* discarded with a console warning, and the call returns.
UploadChunk ==
    IF NoActiveSession(currentSession, isStreaming)
    THEN /\ count.discards < limit.discards
         /\ count' = [count EXCEPT !.discards = @ + 1]
         /\ UNCHANGED <<currentSession, isStreaming, chunkQueue,
                        uploadInterval, timers, startReqs, endReqs, procs,
                        limit, uploadFailures, endedSessions, endPending,
                        socketVars>>
    ELSE /\ count.chunks < limit.chunks
         /\ chunkQueue' = PushChunk(chunkQueue,
                                    MakeChunk(count.chunks + 1, currentSession))
         /\ count' = [count EXCEPT !.chunks = @ + 1]
         /\ UNCHANGED <<currentSession, isStreaming, uploadInterval, timers,
                        startReqs, endReqs, procs, limit, uploadFailures,
                        endedSessions, endPending, socketVars>>

\* A tick of an armed interval timer: processChunkQueue().
Tick(t) ==
    /\ t \in timers
    /\ limit.uploads = "storage down" =>
           (Len(chunkQueue) >= BatchSize \/ count.chunks = limit.chunks)
    /\ LET r == ProcessChunkQueue(chunkQueue, procs, currentSession)
       IN  IF r.started = {}
           THEN UNCHANGED vars
           ELSE /\ count.ticks < limit.ticks
                /\ chunkQueue' = r.queue
                /\ procs' = r.procs
                /\ endPending' = endPending \ r.started
                /\ count' = [count EXCEPT !.ticks = @ + 1]
                /\ UNCHANGED <<currentSession, isStreaming, uploadInterval,
                               timers, startReqs, endReqs, limit,
                               uploadFailures, endedSessions, socketVars>>

\* uploadSingleChunk threw for the first chunk of proc i: the catch block of
\* processChunkQueue re-adds it, and the loop goes on.
UploadThrew(i) ==
    LET c == Head(procs[i].batch)
        r == ContinueLoop(procs, i, Tail(procs[i].batch), currentSession)
    IN  /\ chunkQueue' = Requeue(chunkQueue, c)
        /\ uploadFailures' = [uploadFailures EXCEPT ![c.id] = @ + 1]
        /\ procs' = r.procs
        /\ endPending' = endPending \ r.started

\* Mutant of UploadReturned: the uploaded chunk is put back as well.
UploadReturnedPutsBack(i) ==
    LET c == Head(procs[i].batch)
        r == ContinueLoop(procs, i, Tail(procs[i].batch), currentSession)
    IN  /\ chunkQueue' = Requeue(chunkQueue, c)
        /\ procs' = r.procs
        /\ endPending' = endPending \ r.started
        /\ UNCHANGED uploadFailures

\* uploadSingleChunk returned for the first chunk of proc i.
UploadReturned(i) ==
    LET r == ContinueLoop(procs, i, Tail(procs[i].batch), currentSession)
    IN  /\ procs' = r.procs
        /\ endPending' = endPending \ r.started
        /\ UNCHANGED <<chunkQueue, uploadFailures>>

InjectFailure ==
    /\ count.fails < limit.fails
    /\ count' = [count EXCEPT !.fails = @ + 1]

\* RNFS.writeFile settles.  On success the request URL is built from
\* this.currentSession.session_id (a TypeError when the session is gone)
\* and fetch is called.
WriteDone(i, ok) ==
    /\ i \in DOMAIN procs
    /\ procs[i].stage = "write"
    /\ limit.uploads = "storage down" => (~ok /\ i = 1)
    /\ IF ok
       THEN /\ UNCHANGED count
            /\ IF currentSession = NoSession
               THEN UploadThrew(i)
               ELSE /\ procs' = [procs EXCEPT ![i] =
                           [batch |-> @.batch, stage |-> "fetch",
                            url |-> currentSession]]
                    /\ UNCHANGED <<chunkQueue, uploadFailures, endPending>>
       ELSE InjectFailure /\ UploadThrew(i)
    /\ UNCHANGED <<currentSession, isStreaming, uploadInterval, timers,
                   startReqs, endReqs, limit, endedSessions, socketVars>>

\* How fetch may settle: with a response of some status, or rejected.
Rejected == "rejected"
FetchResults == {"200", "401", "403", "500", Rejected}

\* response.ok
ResponseOk(result) == result = "200"

\* The message of the error uploadSingleChunk throws, as its words:
\* `Upload failed: ${response.status}`, or the rejection of fetch.
UploadError(result) ==
    IF result = Rejected
    THEN <<"Network", "request", "failed">>
    ELSE <<"Upload", "failed:", result>>

\* error.message?.includes(word)
Includes(message, word) == \E k \in DOMAIN message : message[k] = word

\* shouldRetryUpload(error): no caller in the service.
ShouldRetryUpload(message) ==
    IF Includes(message, "401") \/ Includes(message, "403")
    THEN FALSE
    ELSE TRUE

\* fetch settles: response.ok, or a rejected fetch / a response that is not ok.
FetchDone(i, result) ==
    /\ i \in DOMAIN procs
    /\ procs[i].stage = "fetch"
    /\ IF ResponseOk(result)
       THEN /\ UNCHANGED count
            /\ procs' = [procs EXCEPT ![i] =
                            [batch |-> @.batch, stage |-> "unlink"]]
            /\ UNCHANGED <<chunkQueue, uploadFailures, endPending>>
       ELSE InjectFailure /\ UploadThrew(i)
    /\ UNCHANGED <<currentSession, isStreaming, uploadInterval, timers,
                   startReqs, endReqs, limit, endedSessions, socketVars>>

\* RNFS.unlink settles.
UnlinkDone(i, ok) ==
    /\ i \in DOMAIN procs
    /\ procs[i].stage = "unlink"
    /\ IF ok
       THEN UNCHANGED count /\ UploadReturned(i)
       ELSE InjectFailure /\ UploadThrew(i)
    /\ UNCHANGED <<currentSession, isStreaming, uploadInterval, timers,
                   startReqs, endReqs, limit, endedSessions, socketVars>>

\* cleanup()
Cleanup ==
    LET r == StopChunkUploader(chunkQueue, procs, currentSession)
    IN  /\ count.cleanups < limit.cleanups
        /\ timers' = timers \ {uploadInterval}
        /\ uploadInterval' = NoTimer
        /\ procs' = r.procs
        /\ chunkQueue' = <<>>
        /\ currentSession' = NoSession
        /\ isStreaming' = FALSE
        /\ endedSessions' = endedSessions \cup ({currentSession} \ {NoSession})
        /\ endPending' = endPending \ r.started
        /\ count' = [count EXCEPT !.cleanups = @ + 1]
        /\ UNCHANGED <<startReqs, endReqs, limit, uploadFailures, socketVars>>

StreamStep ==
    \/ StartSessionCall
    \/ \E i \in DOMAIN startReqs : StartSessionOk(i)
    \/ \E i \in DOMAIN startReqs : StartSessionFail(i)
    \/ EndSessionCall
    \/ \E i \in DOMAIN endReqs : EndSessionOk(i)
    \/ \E i \in DOMAIN endReqs : EndSessionFail(i)
    \/ UploadChunk
    \/ \E t \in timers : Tick(t)
    \/ \E i \in DOMAIN procs, ok \in BOOLEAN : WriteDone(i, ok)
    \/ \E i \in DOMAIN procs, result \in FetchResults : FetchDone(i, result)
    \/ \E i \in DOMAIN procs, ok \in BOOLEAN : UnlinkDone(i, ok)
    \/ Cleanup

(***************************************************************************)
(* WebSocketProvider: constants                                            *)
(***************************************************************************)
RECONNECT_INTERVAL == 5000
MAX_RECONNECT_ATTEMPTS == 10
MaxReconnectDelay == 30000
NormalClosure == 1000
\* 1006, an abnormal closure: any code other than 1000 behaves alike
AbnormalClosure == NormalClosure + 6

NoSocket == 0

(***************************************************************************)
(* Bounds.  A behaviour runs under one of four profiles, chosen by Init:   *)
(*   exhaust: connections may fail until the attempt counter has passed    *)
(*            MAX_RECONNECT_ATTEMPTS; the host only logs in and changes    *)
(*            the app state;                                               *)
(*   general: few failures in a row, several sockets alive at a time,      *)
(*            every operation of the host;                                 *)
(*   host:    one socket alive at a time, the host sends and reconnects    *)
(*            more often;                                                  *)
(*   inbound: one socket alive at a time, the server sends frames.         *)
(* attempts: connections stop failing once the counter is at this value;   *)
(* sockets:  sockets that are not yet closed, at any one time;             *)
(* sends:    messages the host writes to one socket;                       *)
(* reconnects: pending 1-second timers of reconnect();                     *)
(* logout:   whether the identity, once there, may go away again;          *)
(* inbound:  frames received from the server.                              *)
(***************************************************************************)
AttemptsCap == 11
FewAttempts == 2
MaxSockets == 2
MaxSent == 1
MaxConnectTimers == 1
MaxInbound == 2

SocketProfiles ==
    { [name |-> "exhaust", attempts |-> AttemptsCap, sockets |-> 1,
       sends |-> 0, reconnects |-> 0, logout |-> FALSE, inbound |-> 0],
      [name |-> "general", attempts |-> FewAttempts, sockets |-> MaxSockets,
       sends |-> 1, reconnects |-> 1, logout |-> TRUE, inbound |-> 0],
      [name |-> "host", attempts |-> 1, sockets |-> 1,
       sends |-> MaxSent, reconnects |-> MaxConnectTimers, logout |-> TRUE,
       inbound |-> 0],
      [name |-> "inbound", attempts |-> 1, sockets |-> 1,
       sends |-> 0, reconnects |-> 0, logout |-> TRUE,
       inbound |-> MaxInbound] }

SocketIds == 1..MaxSockets
CloseCodes == {NormalClosure, AbnormalClosure}
AppStates == {"active", "background", "inactive"}

\* The type tags handleIncomingMessage has a case for.
MessageTypes == {"alert", "ml_result", "connection_ack", "error"}
\* What a socket may deliver: a JSON message with one of these tags or with
\* another one, or data that JSON.parse rejects.
NotJson == "not json"
Frames == MessageTypes \cup {"heartbeat", NotJson}
NoMessage == "null"

FreeSocket == [readyState |-> "FREE", sent |-> <<>>]
NoTimeout == [set |-> FALSE, armed |-> FALSE, delay |-> 0]

(***************************************************************************)
(* The provider's state as one record, so that the handlers, which call    *)
(* one another, compose as functions from state to state.                  *)
(***************************************************************************)
Provider ==
    [isConnected |-> isConnected,
     connectionStatus |-> connectionStatus,
     wsRef |-> wsRef,
     reconnectTimeoutRef |-> reconnectTimeoutRef,
     reconnectAttemptsRef |-> reconnectAttemptsRef,
     appStateRef |-> appStateRef,
     lastMessage |-> lastMessage,
     identity |-> identity,
     sockets |-> sockets,
     connectTimers |-> connectTimers,
     socketLimit |-> socketLimit,
     delayLog |-> delayLog,
     connectOutcome |-> connectOutcome,
     inbound |-> inbound,
     blocked |-> blocked]

\* The step's result: the provider's state after the handler has returned.
\* A closed socket that wsRef no longer refers to is garbage: its slot is
\* free again.
Collect(w) ==
    [w EXCEPT !.sockets =
        [s \in SocketIds |->
            IF w.sockets[s].readyState = "CLOSED" /\ w.wsRef # s
            THEN FreeSocket ELSE w.sockets[s]]]

Commit(w) ==
    LET c == Collect(w)
    IN  /\ ~c.blocked
        /\ isConnected' = c.isConnected
        /\ connectionStatus' = c.connectionStatus
        /\ wsRef' = c.wsRef
        /\ reconnectTimeoutRef' = c.reconnectTimeoutRef
        /\ reconnectAttemptsRef' = c.reconnectAttemptsRef
        /\ appStateRef' = c.appStateRef
        /\ lastMessage' = c.lastMessage
        /\ identity' = c.identity
        /\ sockets' = c.sockets
        /\ connectTimers' = c.connectTimers
        /\ socketLimit' = c.socketLimit
        /\ delayLog' = c.delayLog
        /\ connectOutcome' = c.connectOutcome
        /\ inbound' = c.inbound
        /\ blocked' = c.blocked
        /\ UNCHANGED streamVars

ReadyState(w) ==
    IF w.wsRef = NoSocket THEN "NONE" ELSE w.sockets[w.wsRef].readyState

(***************************************************************************)
(* WebSocketProvider: handlers                                             *)
(***************************************************************************)

\* Math.min(RECONNECT_INTERVAL * attempts, 30000)
ReconnectDelay(attempts) ==
    Min(RECONNECT_INTERVAL * attempts, MaxReconnectDelay)

\* Mutant of ScheduleReconnect: the delay is computed before the increment.
ScheduleReconnectStaleCount(w) ==
    LET delay == ReconnectDelay(w.reconnectAttemptsRef)
    IN  [w EXCEPT !.reconnectAttemptsRef = @ + 1,
                  !.reconnectTimeoutRef =
                      [set |-> TRUE, armed |-> TRUE, delay |-> delay],
                  !.delayLog = Append(@, delay)]

\* scheduleReconnect()
ScheduleReconnect(w) ==
    LET attempts == w.reconnectAttemptsRef + 1
        delay == ReconnectDelay(attempts)
    IN  [w EXCEPT !.reconnectAttemptsRef = attempts,
                  !.reconnectTimeoutRef =
                      [set |-> TRUE, armed |-> TRUE, delay |-> delay],
                  !.delayLog = Append(@, delay)]

\* sendMessage(message): written to the socket only when wsRef.current is OPEN
SendMessage(w, type) ==
    IF ReadyState(w) = "OPEN"
    THEN [w EXCEPT !.sockets[w.wsRef].sent = Append(@, type)]
    ELSE w

\* Mutant of Connect: without the readyState guard of lines 44-48.
ConnectUnguarded(w, ident, throws) ==
    IF ~ident THEN [w EXCEPT !.connectOutcome = "returned: no identity"]
    ELSE IF throws
         THEN ScheduleReconnect(
                  [w EXCEPT !.connectionStatus = "error",
                            !.connectOutcome = "returned: caught"])
    ELSE LET free == { s \in 1..w.socketLimit.sockets :
                         w.sockets[s].readyState = "FREE" }
         IN  IF free = {} THEN [w EXCEPT !.blocked = TRUE]
             ELSE LET s == CHOOSE x \in free : \A y \in free : x <= y
                  IN  [w EXCEPT !.connectionStatus = "connecting",
                                !.connectOutcome = "returned: socket created",
                                !.wsRef = s,
                                !.sockets[s] =
                                    [readyState |-> "CONNECTING",
                                     sent |-> <<>>]]

\* connect(), in a closure that saw `ident` (user && token); `throws` is
\* whether `new WebSocket(url)` throws.
Connect(w, ident, throws) ==
    IF ~ident THEN [w EXCEPT !.connectOutcome = "returned: no identity"]
    ELSE IF ReadyState(w) \in {"CONNECTING", "OPEN"}
         THEN [w EXCEPT !.connectOutcome = "returned: already connecting"]
    ELSE IF throws
         THEN ScheduleReconnect(
                  [w EXCEPT !.connectionStatus = "error",
                            !.connectOutcome = "returned: caught"])
    ELSE LET free == { s \in 1..w.socketLimit.sockets :
                         \/ w.sockets[s].readyState = "FREE"
                         \/ w.sockets[s].readyState = "CLOSED" }
         IN  IF free = {} THEN [w EXCEPT !.blocked = TRUE]
             ELSE LET s == CHOOSE x \in free : \A y \in free : x <= y
                  IN  [w EXCEPT !.connectionStatus = "connecting",
                                !.connectOutcome = "returned: socket created",
                                !.wsRef = s,
                                !.sockets[s] =
                                    [readyState |-> "CONNECTING",
                                     sent |-> <<>>]]

\* Mutant of OnOpen: the attempt counter is left as it is.
OnOpenKeepsAttempts(w) ==
    SendMessage([w EXCEPT !.isConnected = TRUE,
                          !.connectionStatus = "connected",
                          !.delayLog = <<>>],
                "device_info")

\* Mutant of OnOpen: no device_info message is sent.
OnOpenNoDeviceInfo(w) ==
    [w EXCEPT !.isConnected = TRUE,
              !.connectionStatus = "connected",
              !.reconnectAttemptsRef = 0,
              !.delayLog = <<>>]

\* wsRef.current.onopen
OnOpen(w) ==
    SendMessage([w EXCEPT !.isConnected = TRUE,
                          !.connectionStatus = "connected",
                          !.reconnectAttemptsRef = 0,
                          !.delayLog = <<>>],
                "device_info")

\* Mutant of OnClose: the attempt counter is not looked at.
OnCloseIgnoresBound(w, code) ==
    LET closed == [w EXCEPT !.isConnected = FALSE,
                            !.connectionStatus = "disconnected"]
    IN  IF code # NormalClosure THEN ScheduleReconnect(closed) ELSE closed

\* wsRef.current.onclose
OnClose(w, code) ==
    LET closed == [w EXCEPT !.isConnected = FALSE,
                            !.connectionStatus = "disconnected"]
    IN  IF code # NormalClosure
           /\ w.reconnectAttemptsRef < MAX_RECONNECT_ATTEMPTS
        THEN ScheduleReconnect(closed)
        ELSE closed

\* handleIncomingMessage(message): the case of the switch that is taken.
HandleIncomingMessage(type) ==
    IF type \in MessageTypes THEN type ELSE "default"

\* Mutant of OnMessage: a message that is not understood is treated as a
\* failure of the connection.
OnMessageStrict(w, frame) ==
    IF frame \in MessageTypes
    THEN [w EXCEPT !.lastMessage = frame,
                   !.inbound = [received |-> @.received + 1,
                                branch |-> HandleIncomingMessage(frame)]]
    ELSE [w EXCEPT !.connectionStatus = "error",
                   !.inbound = [received |-> @.received + 1,
                                branch |-> "raised"]]

\* wsRef.current.onmessage: JSON.parse, setLastMessage and
\* handleIncomingMessage inside a try whose catch only logs.
OnMessage(w, frame) ==
    IF frame = NotJson
    THEN [w EXCEPT !.inbound = [received |-> @.received + 1,
                                branch |-> "catch"]]
    ELSE [w EXCEPT !.lastMessage = frame,
                   !.inbound = [received |-> @.received + 1,
                                branch |-> HandleIncomingMessage(frame)]]

\* wsRef.current.onerror
OnError(w) == [w EXCEPT !.connectionStatus = "error"]

\* Mutant of Disconnect: isConnected is left as it is.
DisconnectKeepsIsConnected(w) ==
    LET closing ==
            IF ReadyState(w) \in {"CONNECTING", "OPEN"}
            THEN [w EXCEPT !.sockets[w.wsRef].readyState = "CLOSING"]
            ELSE w
    IN  [closing EXCEPT
            !.reconnectTimeoutRef =
                IF @.set THEN NoTimeout ELSE @,
            !.wsRef = NoSocket,
            !.connectionStatus = "disconnected"]

\* disconnect()
Disconnect(w) ==
    LET closing ==
            IF ReadyState(w) \in {"CONNECTING", "OPEN"}
            THEN [w EXCEPT !.sockets[w.wsRef].readyState = "CLOSING"]
            ELSE w
    IN  [closing EXCEPT
            !.reconnectTimeoutRef =
                IF @.set THEN NoTimeout ELSE @,
            !.wsRef = NoSocket,
            !.isConnected = FALSE,
            !.connectionStatus = "disconnected"]

\* Mutant of HandleAppStateChange: nothing is done on the return to 'active'.
HandleAppStateChangeNoConnect(w, nextAppState, throws) ==
    LET seen == [w EXCEPT !.appStateRef = nextAppState]
    IN  IF nextAppState = "active"
        THEN seen
        ELSE [seen EXCEPT !.reconnectTimeoutRef =
                              IF @.set THEN NoTimeout ELSE @]

\* handleAppStateChange(nextAppState)
HandleAppStateChange(w, nextAppState, throws) ==
    LET seen == [w EXCEPT !.appStateRef = nextAppState]
    IN  IF nextAppState = "active"
        THEN IF ~w.isConnected /\ w.identity
             THEN Connect(seen, w.identity, throws)
             ELSE seen
        ELSE [seen EXCEPT !.reconnectTimeoutRef =
                              IF @.set THEN NoTimeout ELSE @]

\* The effect on [user, token]: the previous effect's cleanup (disconnect),
\* then the body, which sees the new identity and the isConnected of the
\* render that scheduled it.
IdentityEffect(w, ident, throws) ==
    LET cleaned == [Disconnect(w) EXCEPT !.identity = ident]
    IN  IF ident /\ ~w.isConnected /\ w.appStateRef = "active"
        THEN Connect(cleaned, ident, throws)
        ELSE IF ~ident /\ w.isConnected
        THEN Disconnect(cleaned)
        ELSE cleaned

(***************************************************************************)
(* WebSocketProvider: initial state                                        *)
(***************************************************************************)
SocketInit ==
    /\ isConnected = FALSE
    /\ connectionStatus = "disconnected"
    /\ wsRef = NoSocket
    /\ reconnectTimeoutRef = NoTimeout
    /\ reconnectAttemptsRef = 0
    /\ appStateRef = "active"
    /\ lastMessage = NoMessage
    /\ identity = FALSE
    /\ sockets = [s \in SocketIds |-> FreeSocket]
    /\ connectTimers = [b \in BOOLEAN |-> 0]
    /\ socketLimit \in SocketProfiles
    /\ delayLog = <<>>
    /\ connectOutcome = "not called"
    /\ inbound = [received |-> 0, branch |-> "none"]
    /\ blocked = FALSE

(***************************************************************************)
(* WebSocketProvider: steps                                                *)
(***************************************************************************)

\* Connections may fail as long as the attempt counter is below the bound.
MayFail == reconnectAttemptsRef < socketLimit.attempts

\* Whether `new WebSocket` throws.
Throws == { FALSE } \cup { t \in { TRUE } : MayFail }

\* user / token of useAuth() change (login, logout).
IdentityChanged ==
    /\ identity => socketLimit.logout
    /\ \E throws \in Throws : Commit(IdentityEffect(Provider, ~identity, throws))

\* The host calls sendMessage(message) of the context.
HostSend ==
    /\ wsRef # NoSocket => Len(sockets[wsRef].sent) <= socketLimit.sends
    /\ Commit(SendMessage(Provider, "message"))

\* The host calls reconnect() of the context: disconnect(), then
\* setTimeout(connect, 1000).
HostReconnect ==
    /\ connectTimers[TRUE] + connectTimers[FALSE] < socketLimit.reconnects
    /\ Commit([Disconnect(Provider) EXCEPT !.connectTimers[identity] = @ + 1])

\* The 1-second timer of reconnect() fires: connect().
ConnectTimerFired(ident) ==
    /\ connectTimers[ident] > 0
    /\ \E throws \in Throws :
          Commit(Connect([Provider EXCEPT !.connectTimers[ident] = @ - 1],
                         ident, throws))

\* The reconnect timer fires: connect() if the app is active.  The ref keeps
\* the handle of the fired timer.
ReconnectTimerFired ==
    /\ reconnectTimeoutRef.armed
    /\ LET fired == [Provider EXCEPT !.reconnectTimeoutRef.armed = FALSE]
       IN  IF appStateRef = "active"
           THEN \E throws \in Throws : Commit(Connect(fired, TRUE, throws))
           ELSE Commit(fired)

\* AppState 'change' event.
AppStateChanged(nextAppState) ==
    /\ nextAppState # appStateRef
    /\ \E throws \in Throws :
          Commit(HandleAppStateChange(Provider, nextAppState, throws))

\* The socket opened: readyState OPEN, then the open event.
SocketOpened(s) ==
    /\ sockets[s].readyState = "CONNECTING"
    /\ Commit(OnOpen([Provider EXCEPT !.sockets[s].readyState = "OPEN"]))

\* The connection was closed (by the peer, or after close()): readyState
\* CLOSED, then the close event.
SocketClosed(s, code) ==
    /\ sockets[s].readyState \in {"CONNECTING", "OPEN", "CLOSING"}
    /\ code # NormalClosure => MayFail
    /\ Commit(OnClose([Provider EXCEPT !.sockets[s].readyState = "CLOSED"],
                      code))

\* The connection failed: readyState CLOSED, then the error event and the
\* close event (without a normal close code) in the same task.
SocketFailed(s) ==
    /\ sockets[s].readyState \in {"CONNECTING", "OPEN", "CLOSING"}
    /\ MayFail
    /\ Commit(OnClose(OnError([Provider EXCEPT
                                  !.sockets[s].readyState = "CLOSED"]),
                      AbnormalClosure))

\* A frame arrives on a socket that is open, or closing and still receiving.
SocketMessage(s, frame) ==
    /\ sockets[s].readyState \in {"OPEN", "CLOSING"}
    /\ inbound.received < socketLimit.inbound
    /\ Commit(OnMessage(Provider, frame))

SocketStep ==
    \/ IdentityChanged
    \/ HostSend
    \/ HostReconnect
    \/ \E ident \in BOOLEAN : ConnectTimerFired(ident)
    \/ ReconnectTimerFired
    \/ \E a \in AppStates : AppStateChanged(a)
    \/ \E s \in SocketIds : SocketOpened(s)
    \/ \E s \in SocketIds, code \in CloseCodes : SocketClosed(s, code)
    \/ \E s \in SocketIds : SocketFailed(s)
    \/ \E s \in SocketIds, frame \in Frames : SocketMessage(s, frame)

(***************************************************************************)
(* Specifications                                                          *)
(***************************************************************************)
\* The streaming service under every profile, the provider left alone.
StreamNext == StreamStep

StreamOnlyInit ==
    StreamInit /\ SocketInit /\ socketLimit.name = "general"

StreamSpec == StreamOnlyInit /\ [][StreamNext]_vars

\* The streaming service with the scheduling the run-time gives it: an armed
\* interval timer goes on firing, and the promises of writeFile, fetch and
\* unlink settle.
FlushTimerFires == \E t \in timers : Tick(t)

UploadSettles ==
    \E i \in DOMAIN procs :
       \/ \E ok \in BOOLEAN : WriteDone(i, ok)
       \/ \E result \in FetchResults : FetchDone(i, result)
       \/ \E ok \in BOOLEAN : UnlinkDone(i, ok)

StreamLiveInit == StreamOnlyInit /\ limit.name = "drain"

StreamLiveSpec ==
    /\ StreamLiveInit
    /\ [][StreamNext]_vars
    /\ WF_vars(FlushTimerFires)
    /\ WF_vars(UploadSettles)

\* The provider, the streaming service left alone.
SocketNext == SocketStep

SocketOnlyInit == StreamInit /\ limit.name = "teardown" /\ SocketInit


SocketSpec == SocketOnlyInit /\ [][SocketNext]_vars

(***************************************************************************)
(* Claims about the StreamingService (checked under StreamSpec)            *)
(***************************************************************************)

\* An uploadChunk call that created a chunk (the session was active).
ChunkSubmitted == count'.chunks = count.chunks + 1

\* Nothing has taken chunks out of the queue yet.
NoFlushYet == count.ticks = 0 /\ count.ends = 0 /\ count.cleanups = 0

\* C1: in every reachable state the chunk queue holds at most 50 chunks.
C1_QueueWithinCapacity == Len(chunkQueue) <= QueueCapacity

\* C1 witness: the queue is full and chunks have already been dropped, or a
\* failed chunk was put back into a queue that submissions went on filling.
C1_Witness ==
    /\ Len(chunkQueue) = QueueCapacity
    /\ count.chunks > QueueCapacity
    /\ count.ticks > 0

\* C2: a submission to a queue of 50 removes the head and keeps the new chunk
\* at the tail; with no flush in between, the queue holds the most recently
\* submitted chunks (at most 50 of them) in submission order.
C2_DropsOldestKeepsNewest ==
    /\ [][(ChunkSubmitted /\ Len(chunkQueue) = QueueCapacity) =>
            chunkQueue' = Append(Tail(chunkQueue),
                                 MakeChunk(count'.chunks, currentSession))]_vars
    /\ [](NoFlushYet =>
            LET n == count.chunks
                k == Min(n, QueueCapacity)
            IN  /\ Len(chunkQueue) = k
                /\ \A i \in 1..k : chunkQueue[i].id = n - k + i)

\* C2 witness: 60 chunks were submitted to the empty queue with no flush, and
\* the queue holds chunks 11..60.
C2_Witness ==
    /\ NoFlushYet
    /\ count.chunks = OverflowChunks
    /\ Len(chunkQueue) = QueueCapacity
    /\ chunkQueue[1].id = OverflowChunks - QueueCapacity + 1
    /\ chunkQueue[QueueCapacity].id = OverflowChunks

\* C3 (as claimed): a chunk whose upload has failed more than 30 times is not
\* in the queue.
C3_FailedPastBoundNotQueued ==
    \A i \in DOMAIN chunkQueue : uploadFailures[chunkQueue[i].id] <= RetryBound

\* C4 (as claimed): when endSession clears the session, an upload has been
\* started for every chunk that was queued when endSession was called.
C4_EndSessionFlushesAll ==
    [][\A i \in DOMAIN endReqs :
          (EndSessionOk(i) /\ currentSession # NoSession) => endPending = {}]_vars

\* C5 (as claimed): when endSession finishes, with the end-session request
\* accepted or rejected, there is no current session and the queue is empty.
C5_EndSessionClearsState ==
    [][\A i \in DOMAIN endReqs :
          (EndSessionOk(i) \/ EndSessionFail(i)) =>
              (currentSession' = NoSession /\ chunkQueue' = <<>>)]_vars

\* C6 (as claimed): with sessions ended by endSession only (cleanup is never
\* called), no upload request is issued for a chunk whose session has ended.
C6_NoUploadAfterSessionEnd ==
    [][\A i \in DOMAIN procs :
          (WriteDone(i, TRUE) /\ currentSession # NoSession
                              /\ count.cleanups = 0) =>
              Head(procs[i].batch).session_id \notin endedSessions]_vars

\* C7 (as claimed): a startSession call made while a session is active does
\* not replace that session.
C7_StartWhileActiveKeepsSession ==
    [][\A i \in DOMAIN startReqs :
          (StartSessionOk(i) /\ startReqs[i] # NoSession
                             /\ currentSession = startReqs[i]) =>
              currentSession' = currentSession]_vars

\* uploadChunk was called in this step.
UploadChunkCalled ==
    ChunkSubmitted \/ count'.discards = count.discards + 1

\* C15: an uploadChunk call made while no session is active (no session yet,
\* endSession already called, or after cleanup) queues nothing and changes
\* no state of the service.
C15_SubmitWithoutSessionChangesNothing ==
    [][(UploadChunkCalled /\ (currentSession = NoSession \/ ~isStreaming)) =>
          UNCHANGED <<currentSession, isStreaming, chunkQueue, uploadInterval,
                      timers, startReqs, endReqs, procs>>]_vars

\* C15 witness: a chunk was submitted and discarded after endSession had
\* been called on the session (its end request still pending).
C15_Witness ==
    /\ count.discards > 0
    /\ count.chunks = 0
    /\ chunkQueue = <<>>
    /\ currentSession # NoSession
    /\ ~isStreaming
    /\ Len(endReqs) > 0

\* C16: a startSession whose request is rejected throws to its caller and
\* sets no session, no streaming flag and no flush timer: with no session
\* started by another call, the service has no current session, is not
\* streaming and has no timer armed.
C16_FailedStartLeavesNoSession ==
    [][\A i \in DOMAIN startReqs : StartSessionFail(i) =>
          /\ count'.startErrors = count.startErrors + 1
          /\ UNCHANGED <<currentSession, isStreaming, uploadInterval, timers>>
          /\ count.sessions = 0 =>
                 /\ currentSession' = NoSession
                 /\ ~isStreaming'
                 /\ uploadInterval' = NoTimer
                 /\ timers' = {}]_vars

\* C16 witness: the only startSession call was rejected.
C16_Witness ==
    /\ count.startErrors > 0
    /\ count.sessions = 0
    /\ startReqs = <<>>
    /\ currentSession = NoSession
    /\ ~isStreaming
    /\ timers = {}

\* The queued chunks that have failed an upload before.
FailedHeld(q) == { i \in DOMAIN q : uploadFailures[q[i].id] > 0 }

\* The chunks of the batches that are being uploaded.
InFlight ==
    UNION { ChunkIds(procs[i].batch) : i \in DOMAIN procs }

\* The chunk whose upload failed in this step.
FailedNow(id) == uploadFailures'[id] = uploadFailures[id] + 1

\* C19: the queue never holds more than 30 chunks that have failed before; a
\* chunk that fails while 30 such chunks are held is not put back, and a
\* chunk enters the queue only as a new submission or from a running batch,
\* so a discarded chunk never comes back.
C19_FailedHeldWithinBound ==
    /\ [](Cardinality(FailedHeld(chunkQueue)) <= RetryBound)
    /\ [][uploadFailures' # uploadFailures =>
             \A id \in InFlight :
                 (FailedNow(id)
                    /\ Cardinality(FailedHeld(chunkQueue)) >= RetryBound) =>
                     id \notin ChunkIds(chunkQueue')]_vars
    /\ [][chunkQueue' # chunkQueue =>
             ChunkIds(chunkQueue') \subseteq
                 ChunkIds(chunkQueue) \cup InFlight \cup {count'.chunks}]_vars

\* C19 witness: 30 failed chunks are held in the queue, and one more chunk
\* has failed and is gone: neither queued nor in a running batch.
C19_Witness ==
    /\ Cardinality(FailedHeld(chunkQueue)) = RetryBound
    /\ \E id \in 1..MaxChunkId :
          /\ uploadFailures[id] > 0
          /\ id \notin ChunkIds(chunkQueue)
          /\ id \notin InFlight

\* A tick of the flush timer that dequeued a batch.
FlushTick == \E t \in timers : Tick(t) /\ count'.ticks = count.ticks + 1

\* C20 (as claimed): a chunk whose upload fails with fewer than 30 chunks
\* queued is put back at the head of the queue, and every failed chunk that
\* waits in the queue is in the batch the next flush tick dequeues.
C20_FailedChunkInNextBatch ==
    /\ [][uploadFailures' # uploadFailures =>
             \A id \in InFlight :
                 (FailedNow(id) /\ Len(chunkQueue) < RetryBound) =>
                     (chunkQueue' # <<>> /\ chunkQueue'[1].id = id)]_vars
    /\ [][FlushTick =>
             \A i \in FailedHeld(chunkQueue) :
                 chunkQueue[i].id \in ChunkIds(SpliceBatch(chunkQueue))]_vars

\* The chunk that batch i is uploading failed in this step and was put back
\* into the queue.
BatchRequeued(i) ==
    LET id == Head(procs[i].batch).id
    IN  FailedNow(id) /\ id \in ChunkIds(chunkQueue')

\* C21 (as claimed): with batches dequeued by flush ticks only (no endSession,
\* no cleanup), a failed chunk is put back only by the batch that was dequeued
\* last: no later tick has dequeued its batch in between.
C21_TicksDoNotInterleave ==
    [][(uploadFailures' # uploadFailures
           /\ count.ends = 0 /\ count.cleanups = 0) =>
          \A i \in DOMAIN procs : BatchRequeued(i) => i = Len(procs)]_vars

\* The chunks whose upload request has not been issued yet: those in the
\* queue, and in every running batch those behind the chunk being uploaded
\* (and that chunk too while its file is still being written).
NotYetRequested ==
    { chunkQueue[k] : k \in DOMAIN chunkQueue } \cup
    UNION { LET b == procs[i].batch
                w == IF procs[i].stage = "write" THEN b ELSE Tail(b)
            IN  { w[k] : k \in DOMAIN w } : i \in DOMAIN procs }

\* uploadSingleChunk of batch i calls fetch in this step.
RequestIssued(i) ==
    /\ procs[i].stage = "write"
    /\ currentSession # NoSession
    /\ WriteDone(i, TRUE)

\* C22 (as claimed): while no upload has failed, the queue has not
\* overflowed and batches are dequeued by flush ticks only, when the request
\* for a chunk is issued no chunk submitted before it in the same session is
\* still waiting for its request.
C22_RequestsInSubmissionOrder ==
    [][\A i \in DOMAIN procs :
          (count.fails = 0 /\ count.chunks <= QueueCapacity
              /\ count.ends = 0 /\ count.cleanups = 0
              /\ RequestIssued(i)) =>
             \A c \in NotYetRequested :
                c.session_id = Head(procs[i].batch).session_id =>
                   c.id >= Head(procs[i].batch).id]_vars

\* endSession() is called in this step.
EndSessionCalled ==
    count'.ends = count.ends + 1 \/ count'.idleEnds = count.idleEnds + 1

\* C23: an endSession() call with a session disarms the timer held in
\* uploadInterval; when the call has completed, the timer of the session it
\* ended is not armed (no timer at all is, if startSession was called once);
\* and a call with no session present issues no request, starts no upload
\* and changes no state.
C23_EndSessionIsIdempotent ==
    /\ [][EndSessionCalled =>
             IF currentSession = NoSession
             THEN UNCHANGED <<currentSession, isStreaming, chunkQueue,
                              uploadInterval, timers, startReqs, endReqs,
                              procs, uploadFailures, endedSessions,
                              endPending, socketVars>>
             ELSE /\ uploadInterval' = NoTimer
                  /\ uploadInterval \notin timers']_vars
    /\ [][\A i \in DOMAIN endReqs :
             (EndSessionOk(i) /\ currentSession = endReqs[i]) =>
                /\ endReqs[i] \notin timers'
                /\ uploadInterval' # endReqs[i]
                /\ count.starts = 1 => timers' = {}]_vars

\* endSession() has completed for a session, and the latest call, made after
\* that with no session present, returned at its guard.
C23_Witness ==
    /\ count.lastEnd = "ignored"
    /\ endedSessions # {}
    /\ count.cleanups = 0
    /\ currentSession = NoSession
    /\ timers = {}

\* endSession() issues the backend's end-session request in this step.
EndRequestIssued == Len(endReqs') = Len(endReqs) + 1

\* The batches dequeued in this step that are still being uploaded after it.
FlushOutstanding ==
    { i \in DOMAIN procs' : i > Len(procs) }

\* C28 (as claimed): when endSession() issues the end-session request, the
\* flush timer is disarmed and no upload of the flush that endSession started
\* is outstanding; the session is cleared only by the step that follows the
\* request.
C28_EndRequestAfterTerminalFlush ==
    [][/\ EndRequestIssued =>
             /\ uploadInterval' = NoTimer
             /\ FlushOutstanding = {}
             /\ currentSession' = currentSession
       /\ (currentSession # NoSession /\ currentSession' = NoSession
              /\ count'.cleanups = count.cleanups) =>
             \E i \in DOMAIN endReqs : EndSessionOk(i)]_vars

\* C29 (as claimed): a chunk whose request fails is put back into the queue
\* if and only if shouldRetryUpload accepts the error (it is not a 401 or a
\* 403) and the queue holds fewer than 30 chunks.
C29_AuthFailureNotRetried ==
    [][\A i \in DOMAIN procs, result \in FetchResults :
          (FetchDone(i, result) /\ ~ResponseOk(result)) =>
             (Head(procs[i].batch).id \in ChunkIds(chunkQueue') <=>
                 /\ ShouldRetryUpload(UploadError(result))
                 /\ Len(chunkQueue) < RetryBound)]_vars

\* C30 (as claimed): every upload request that is under way is addressed to
\* the session id stamped on its chunk.
C30_RequestAddressedToChunkSession ==
    \A i \in DOMAIN procs :
       procs[i].stage = "fetch" =>
          procs[i].url = Head(procs[i].batch).session_id

\* The chunks whose upload request the backend has accepted and whose
\* temporary file is being removed.
Accepted ==
    { Head(procs[i].batch).id : i \in { j \in DOMAIN procs :
                                          procs[j].stage = "unlink" } }

\* C31 (as claimed): a chunk whose request was accepted does not re-enter
\* the queue, whatever the removal of its temporary file does.
C31_AcceptedChunkNotRequeued ==
    [][\A id \in Accepted : id \notin ChunkIds(chunkQueue')]_vars

\* C32 (as claimed): at most one interval timer is armed, and it is the one
\* whose handle is in uploadInterval; with no handle there (after endSession
\* or cleanup, before the next startSession) no timer is armed and no tick
\* can fire.
C32_AtMostOneFlushTimer ==
    /\ Cardinality(timers) <= 1
    /\ timers \subseteq {uploadInterval}

\* cleanup() has been called on a service that had at most one session,
\* never ended by endSession; no session has been started since and no
\* startSession call is pending.
CleanedUp ==
    /\ count.cleanups > 0
    /\ count.sessions <= 1
    /\ count.ends = 0
    /\ currentSession = NoSession
    /\ startReqs = <<>>

\* C33 (as claimed): after cleanup() no step puts a chunk into the queue,
\* and once the uploads in flight have settled the queue is empty, there is
\* no session, the service is not streaming and no timer is armed.
C33_CleanupIsFinal ==
    /\ [][CleanedUp => chunkQueue' = <<>>]_vars
    /\ [](CleanedUp /\ procs = <<>> =>
            /\ chunkQueue = <<>>
            /\ ~isStreaming
            /\ timers = {})

\* isSessionActive()
IsSessionActive == isStreaming /\ currentSession # NoSession

\* C34 (as claimed): whenever isStreaming is true, isSessionActive() is
\* true: a session is present, and the interval timer whose handle is in
\* uploadInterval is armed.
C34_StreamingHasSessionAndTimer ==
    isStreaming =>
       /\ IsSessionActive
       /\ uploadInterval # NoTimer
       /\ uploadInterval \in timers

\* The positions of the queue that hold chunks put back after a failure.
RequeuedAt ==
    { k \in DOMAIN chunkQueue : uploadFailures[chunkQueue[k].id] > 0 }

\* C35 (as claimed): while a single batch has been dequeued (one tick, no
\* endSession, no cleanup), the chunks of it that were put back are in the
\* queue in the order of their submission.
C35_RequeuedKeepSubmissionOrder ==
    (count.ticks = 1 /\ count.ends = 0 /\ count.cleanups = 0) =>
       \A j, k \in RequeuedAt :
          j < k => chunkQueue[j].id < chunkQueue[k].id

\* C36 (checked under StreamLiveSpec): if from some point on the session is
\* active, no chunk is submitted and no upload fails, then from some point on
\* the queue is empty and no upload is under way.
C36_QueueEventuallyDrains ==
    (/\ <>[]IsSessionActive
     /\ <>[][~ChunkSubmitted /\ uploadFailures' = uploadFailures]_vars)
       => <>[](chunkQueue = <<>> /\ procs = <<>>)

\* Every chunk the run allows was submitted, an upload failed and its chunk
\* was put back, and the ticks have drained the queue of the active session.
C36_Witness ==
    /\ limit.name = "drain"
    /\ IsSessionActive
    /\ count.chunks = limit.chunks
    /\ count.fails = limit.fails
    /\ count.ticks > 1
    /\ chunkQueue = <<>>
    /\ procs = <<>>

(***************************************************************************)
(* Claims about the WebSocketProvider (checked under SocketSpec)           *)
(***************************************************************************)

\* scheduleReconnect ran in this step.
ReconnectScheduled == Len(delayLog') = Len(delayLog) + 1

\* A step nobody asked for: a socket event or the reconnect timer.
AutomaticStep ==
    \/ ReconnectTimerFired
    \/ \E s \in SocketIds, code \in CloseCodes : SocketClosed(s, code)
    \/ \E s \in SocketIds : SocketFailed(s)

\* C8 (as claimed): once the attempt counter has reached maxAttempts (10), a
\* socket close, a transport error or a failed socket construction in a
\* timer-driven connect schedules no further reconnect.
C8_NoReconnectAfterMaxAttempts ==
    [][(reconnectAttemptsRef >= MAX_RECONNECT_ATTEMPTS /\ AutomaticStep) =>
          ~ReconnectScheduled]_vars

\* C9: the k-th reconnect scheduled since the last socket-open (or since the
\* start) has the delay min(5000 * k, 30000); the delays never decrease and
\* never exceed 30000.
C9_ReconnectDelays ==
    /\ \A k \in DOMAIN delayLog :
          delayLog[k] = IF RECONNECT_INTERVAL * k < MaxReconnectDelay
                        THEN RECONNECT_INTERVAL * k ELSE MaxReconnectDelay
    /\ \A k \in DOMAIN delayLog : delayLog[k] <= MaxReconnectDelay
    /\ \A k \in 1..(Len(delayLog) - 1) : delayLog[k] <= delayLog[k + 1]

\* C9 witness: reconnects scheduled in a row with the delays 5000, 10000,
\* 15000, and later ones held at 30000.
C9_Witness ==
    /\ Len(delayLog) > 6
    /\ SubSeq(delayLog, 1, 3) = <<5000, 10000, 15000>>
    /\ delayLog[Len(delayLog)] = 30000
    /\ reconnectTimeoutRef.armed
    /\ reconnectTimeoutRef.delay = 30000

\* C10 (as claimed): a sendMessage call made while the connection status is
\* not 'connected' writes nothing to any socket.
C10_SendWhileNotConnectedDrops ==
    [][(HostSend /\ connectionStatus # "connected") => sockets' = sockets]_vars

\* The close event, or the failure, of a socket that disconnect() has closed
\* (only disconnect() calls close(), so only its sockets are CLOSING).
ClosedSocketEvent ==
    \E s \in SocketIds :
        /\ sockets[s].readyState = "CLOSING"
        /\ \/ \E code \in CloseCodes : SocketClosed(s, code)
           \/ SocketFailed(s)

\* C11 (as claimed): a disconnect() issued while a socket is opening or open
\* (here by reconnect()) leaves no reconnect timer armed and the status
\* 'disconnected', and the later close event of the socket it closed
\* schedules no reconnect.
C11_DisconnectSchedulesNoReconnect ==
    [][/\ (HostReconnect /\ ReadyState(Provider) \in {"CONNECTING", "OPEN"}) =>
              /\ ~reconnectTimeoutRef'.armed
              /\ connectionStatus' = "disconnected"
              /\ ~ReconnectScheduled
       /\ ClosedSocketEvent => ~ReconnectScheduled]_vars

\* The sockets the provider created that are opening or open.
LiveSockets ==
    { s \in SocketIds : sockets[s].readyState \in {"CONNECTING", "OPEN"} }

\* C12: at most one socket created by the provider is CONNECTING or OPEN, and
\* it is the one wsRef refers to; a connect() that found it returned without
\* creating another.
C12_AtMostOneLiveSocket ==
    /\ Cardinality(LiveSockets) <= 1
    /\ LiveSockets \subseteq {wsRef}

\* C12 witness: connect() was called while the socket was opening or open and
\* returned at the guard, with an earlier socket of the provider still closing.
C12_Witness ==
    /\ connectOutcome = "returned: already connecting"
    /\ LiveSockets = {wsRef}
    /\ \E s \in SocketIds : sockets[s].readyState = "CLOSING"

\* C13 (as claimed): a connect() that finds no identity (here the delayed
\* connect of a reconnect() made while logged out) ends by raising AuthMissing
\* to its caller, creates no socket, schedules no reconnect and leaves the
\* connection state unchanged.
C13_ConnectWithoutIdentityRaises ==
    [][ConnectTimerFired(FALSE) =>
          /\ connectOutcome' = "raised: AuthMissing"
          /\ sockets' = sockets
          /\ wsRef' = wsRef
          /\ ~ReconnectScheduled
          /\ reconnectTimeoutRef' = reconnectTimeoutRef
          /\ connectionStatus' = connectionStatus
          /\ isConnected' = isConnected]_vars

\* connect() created a socket in this step.
SocketCreated ==
    \E s \in SocketIds :
        /\ sockets[s].readyState # "CONNECTING"
        /\ sockets'[s].readyState = "CONNECTING"

\* C14: a connect() that creates a socket leaves the status 'connecting';
\* the socket's open event makes it 'connected' (isConnected true) and sets
\* the reconnect attempt counter to 0, whatever it was.
C14_ConnectThenOpenResetsAttempts ==
    [][/\ SocketCreated =>
              /\ connectionStatus' = "connecting"
              /\ ~isConnected'
              /\ ReadyState(Provider)' = "CONNECTING"
       /\ \A s \in SocketIds : SocketOpened(s) =>
              /\ connectionStatus' = "connected"
              /\ isConnected'
              /\ reconnectAttemptsRef' = 0]_vars

\* C14 witness: connected after the second reconnect in a row: the fired
\* reconnect timer carried the delay of attempt 2 or later, and the counter
\* is back at 0.
C14_Witness ==
    /\ connectionStatus = "connected"
    /\ isConnected
    /\ ReadyState(Provider) = "OPEN"
    /\ reconnectAttemptsRef = 0
    /\ reconnectTimeoutRef.set /\ ~reconnectTimeoutRef.armed
    /\ reconnectTimeoutRef.delay > RECONNECT_INTERVAL

\* C17 (as claimed): while the app is in the background or inactive, and
\* stays there, no step creates a socket.
C17_NoConnectWhileBackgrounded ==
    [][(appStateRef # "active" /\ appStateRef' # "active") =>
          ~SocketCreated]_vars

\* The connection was lost and no disconnect() followed: wsRef still refers
\* to the socket, which is closed.
ConnectionLost == identity /\ ReadyState(Provider) = "CLOSED"

\* C18: when the app returns to 'active' with the connection lost, connect()
\* runs in the handler of that very event: a socket is created (or, if its
\* construction throws, the next attempt is scheduled), whether or not a
\* reconnect timer is still pending.
C18_ForegroundReconnects ==
    [][(ConnectionLost /\ appStateRef # "active"
                       /\ AppStateChanged("active")) =>
          (SocketCreated \/ ReconnectScheduled)]_vars

\* C18 witness: logged in since the start, the connection failed, the
\* reconnect timer was cancelled by the move to the background, and the
\* return to 'active' has created a socket (the attempt counter still holds
\* the failures, no timer is set).
C18_Witness ==
    /\ socketLimit.name = "exhaust"
    /\ appStateRef = "active"
    /\ ReadyState(Provider) = "CONNECTING"
    /\ connectOutcome = "returned: socket created"
    /\ reconnectAttemptsRef > 0
    /\ reconnectTimeoutRef = NoTimeout

\* C24: when a socket (open, or in any other state) closes, the status
\* becomes 'disconnected'; a reconnect is scheduled if and only if the close
\* code is not 1000 and the attempt counter is below MAX_RECONNECT_ATTEMPTS,
\* and scheduling arms the timer and counts one attempt.
C24_CloseSchedulesBelowMax ==
    [][\A s \in SocketIds, code \in CloseCodes :
          (sockets' # sockets /\ SocketClosed(s, code)) =>
             /\ connectionStatus' = "disconnected"
             /\ ~isConnected'
             /\ ReconnectScheduled <=>
                    (code # NormalClosure
                        /\ reconnectAttemptsRef < MAX_RECONNECT_ATTEMPTS)
             /\ ReconnectScheduled =>
                    /\ reconnectTimeoutRef'.armed
                    /\ reconnectAttemptsRef' = reconnectAttemptsRef + 1]_vars

\* A socket that had been open (device_info was written to it) closed with
\* a code other than 1000, and the first reconnect is scheduled.
C24_Witness ==
    /\ wsRef # NoSocket
    /\ sockets[wsRef].readyState = "CLOSED"
    /\ sockets[wsRef].sent # <<>>
    /\ connectionStatus = "disconnected"
    /\ reconnectTimeoutRef.armed
    /\ reconnectAttemptsRef = 1
    /\ Len(delayLog) = 1

\* `new WebSocket(url)` threw in this step: the step is a call of connect()
\* (from a timer, the app-state handler or the identity effect) that reached
\* the constructor, and its result is that of the catch block.
ConnectThrew ==
    LET Threw(caught, created) == caught # created /\ Commit(caught)
    IN  \/ /\ reconnectTimeoutRef.armed
           /\ appStateRef = "active"
           /\ LET fired ==
                      [Provider EXCEPT !.reconnectTimeoutRef.armed = FALSE]
              IN  Threw(Connect(fired, TRUE, TRUE), Connect(fired, TRUE, FALSE))
        \/ \E ident \in BOOLEAN :
              /\ connectTimers[ident] > 0
              /\ LET fired == [Provider EXCEPT !.connectTimers[ident] = @ - 1]
                 IN  Threw(Connect(fired, ident, TRUE),
                           Connect(fired, ident, FALSE))
        \/ \E a \in AppStates \ {appStateRef} :
              Threw(HandleAppStateChange(Provider, a, TRUE),
                    HandleAppStateChange(Provider, a, FALSE))
        \/ Threw(IdentityEffect(Provider, ~identity, TRUE),
                 IdentityEffect(Provider, ~identity, FALSE))

\* C25 (as claimed): when the socket cannot be created the status becomes
\* 'error', and when a socket fails its error handler sets the status
\* 'error'; in both cases a reconnect is scheduled if and only if the attempt
\* counter is below MAX_RECONNECT_ATTEMPTS.
C25_FailureSchedulesBelowMax ==
    [][/\ ConnectThrew =>
             /\ connectionStatus' = "error"
             /\ ReconnectScheduled <=>
                    reconnectAttemptsRef < MAX_RECONNECT_ATTEMPTS
       /\ (\E s \in SocketIds : SocketFailed(s)) =>
             /\ OnError(Provider).connectionStatus = "error"
             /\ ReconnectScheduled <=>
                    reconnectAttemptsRef < MAX_RECONNECT_ATTEMPTS]_vars

\* C26: the open event of a socket writes device_info to that socket as its
\* first message: nothing is written to a socket before it opens, an open
\* socket has device_info written to it, and whatever else is written to a
\* socket comes after its device_info.
C26_DeviceInfoFirst ==
    /\ [](\A s \in SocketIds :
            /\ sockets[s].readyState = "CONNECTING" => sockets[s].sent = <<>>
            /\ sockets[s].readyState = "OPEN" => sockets[s].sent # <<>>
            /\ sockets[s].sent # <<>> => sockets[s].sent[1] = "device_info")
    /\ [][\A s \in SocketIds :
             SocketOpened(s) => sockets'[s].sent = <<"device_info">>]_vars

\* The host has written a message to an opened socket, behind device_info.
C26_Witness ==
    \E s \in SocketIds : sockets[s].sent = <<"device_info", "message">>

\* C27: a frame that JSON.parse rejects, or a message whose type tag has no
\* case, leaves the connection status, isConnected, the attempt counter, the
\* reconnect timer and the sockets as they are, and ends in the catch block
\* or the default case, which only log; a message is handled by the case of
\* its tag exactly when the tag is alert, ml_result, connection_ack or error.
C27_UnknownInboundIsIgnored ==
    [][\A s \in SocketIds, frame \in Frames :
          (inbound' # inbound /\ SocketMessage(s, frame)) =>
             /\ frame \notin MessageTypes =>
                   /\ UNCHANGED <<connectionStatus, isConnected,
                                  reconnectAttemptsRef, reconnectTimeoutRef,
                                  wsRef, sockets, delayLog, connectTimers>>
                   /\ inbound'.branch =
                         IF frame = NotJson THEN "catch" ELSE "default"
             /\ inbound'.branch \in MessageTypes <=> frame \in MessageTypes
             /\ frame \in MessageTypes => inbound'.branch = frame]_vars

\* A message with an unknown tag, then a frame that is not JSON, were
\* received on a connection that is still up.
C27_Witness ==
    /\ inbound.received = MaxInbound
    /\ inbound.branch = "catch"
    /\ lastMessage = "heartbeat"
    /\ connectionStatus = "connected"
    /\ isConnected

\* C37: in every state the provider is left in by a handler, isConnected is
\* true exactly when connectionStatus is 'connected'.
C37_ConnectivityConsistent ==
    isConnected <=> connectionStatus = "connected"

\* The provider reports 'disconnected' although the socket wsRef refers to
\* is open: the close event of an earlier socket, closed by reconnect(),
\* arrived after the new socket had opened.
C37_Witness ==
    /\ ~isConnected
    /\ connectionStatus = "disconnected"
    /\ ReadyState(Provider) = "OPEN"

\* An event (open, close, error, message) is delivered for socket s.
SocketEvent(s) ==
    \/ SocketOpened(s)
    \/ \E code \in CloseCodes : SocketClosed(s, code)
    \/ SocketFailed(s)
    \/ \E frame \in Frames : SocketMessage(s, frame)

\* C38 (as claimed): an event of a socket that wsRef does not refer to any
\* more leaves isConnected, the status, the attempt counter and the
\* reconnect timer as they are.
C38_SupersededSocketIgnored ==
    [][\A s \in SocketIds \ {wsRef} :
          (sockets[s].readyState # "FREE" /\ SocketEvent(s)) =>
             UNCHANGED <<isConnected, connectionStatus, reconnectAttemptsRef,
                         reconnectTimeoutRef>>]_vars

\* C39 (as claimed): the attempt counter is between 0 and
\* MAX_RECONNECT_ATTEMPTS in every state.
C39_AttemptsWithinMax ==
    reconnectAttemptsRef \in 0..MAX_RECONNECT_ATTEMPTS

\* The 1-second timer of a reconnect() fires, or the app state changes.  (A
\* backoff timer pending at disconnect() is cancelled by it; one armed later
\* comes from a close event of the superseded socket, see C38.)
TimerOrAppStateStep ==
    \/ \E ident \in BOOLEAN : ConnectTimerFired(ident)
    \/ \E a \in AppStates : AppStateChanged(a)

\* C40 (as claimed): after the disconnect() that follows the loss of the
\* identity, and until the identity is back, neither the 1-second timer of
\* an earlier reconnect() nor an app-state change creates a socket.
C40_NoSocketAfterDisconnect ==
    [][(~identity /\ ~identity' /\ TimerOrAppStateStep) =>
          ~SocketCreated]_vars

====
